---- MODULE Spec2Model ----
(***************************************************************************)
(* Silence-based segmentation of split_by_silence.py.                      *)
(*                                                                         *)
(* build_segments is modelled twice from the same source lines: as a       *)
(* step machine (one action per control-flow step of the function, so      *)
(* that loop iterations and termination are visible) and as the pure       *)
(* operator BuildSegments (the function's result, used to relate runs on   *)
(* different argument lists).  Both are built from the same primitive      *)
(* definitions (InRange, sorted, NeedForced, Cut, AcceptForced,            *)
(* AcceptNatural, TailPolicy).                                             *)
(*                                                                         *)
(* Times are integers (a fixed unit of time); the arithmetic of the code   *)
(* is exact on them, so float rounding is not part of this model.          *)
(* The arguments include invalid configurations (min_segment = 0,          *)
(* max_segment <= min_segment, total_duration = 0): nothing in the code    *)
(* keeps them out.  With max_segment = 0 >= min_segment a forced-cut loop  *)
(* never ends; SegCap stops the model there.                               *)
(*                                                                         *)
(* The CLI main and split_segments of the same file are modelled around    *)
(* it: main probes the duration, parses the log, calls build_segments      *)
(* (the step machine above) and hands the list to split_segments, whose    *)
(* external operations (ffprobe, reading the log, makedirs, each ffmpeg    *)
(* extraction, the final print) are recorded in effects.                   *)
(***************************************************************************)
EXTENDS Integers, Sequences, FiniteSets, TLC

\* ---- bounds of the model -------------------------------------------------
MaxTotal == 7     \* total_duration ranges over 0..MaxTotal
MaxLen == 3       \* length of the silence_points argument
MaxLenFair == 2   \* the same, in the specification with fairness
MaxMin == 2       \* min_segment ranges over 0..MaxMin
MaxMax == 3       \* max_segment ranges over 0..MaxMax
MaxLenMain == 2   \* number of silence_start entries of the log read by main
MaxParts == 100   \* length of the list passed to split_segments directly

\* silence points may lie outside (0, total_duration): 0, total, beyond
PointValues == 0..(MaxTotal + 1)

\* cap on the segment list; reached only by a forced-cut loop that never ends
SegCap == MaxTotal + MaxLen + 2

VARIABLES
    silence_points,   \* argument: the list as passed by the caller
    total_duration,   \* argument
    min_segment,      \* argument
    max_segment,      \* argument
    points,           \* local silence_points after the filter and sort
    idx,              \* position of the for loop in points
    start,            \* local start (the cursor)
    segments,         \* local segments, a sequence of <<start, end>>
    tail_branch,      \* which branch of step 4 ran: none/append/merge/fallback
    pc,               \* position in build_segments
    input_exists,     \* os.path.exists(input_file)
    log_exists,       \* os.path.exists(silence_log)
    mpc,              \* position in main / split_segments
    ext,              \* split_segments: extension of the output files
    part,             \* split_segments: index i of the for loop
    effects,          \* external operations performed so far, in order
    yargs,            \* yt_fukikae: the command-line arguments that steer main
    ypc,              \* yt_fukikae: position in main
    ywait,            \* yt_fukikae: main is blocked in subprocess.run
    yrunning,         \* yt_fukikae: the subprocesses running now
    yevents,          \* yt_fukikae: steps and subprocess starts/exits, in order
    yvideo,           \* yt_fukikae: what create_video_from_audio returned
    ystatus,          \* yt_fukikae: exit status of the process, -1 while it runs
    script,           \* stage scripts: which script's main is running
    dir_exists,       \* stage scripts: os.path.isdir of the work directory
    listing,          \* stage scripts: names in the work directory (digit strings)
    files,            \* stage scripts: local files, the sorted matching names
    fpos,             \* stage scripts: position of the for loop in files
    done_files,       \* stage scripts: files whose output was written, in order
    failed_files,     \* stage scripts: files whose processing raised, in order
    any_error,        \* translate_to_ja: local any_error
    combined,         \* stage scripts: the combined/merged output was written
    spc,              \* stage scripts: position in main
    sstatus,          \* stage scripts: exit status of the process, -1 while it runs
    text,             \* split_ja: argument text of split_text, a sequence of characters
    max_chars,        \* split_ja: argument max_chars
    chunks,           \* split_ja: local chunks, the list split_text returns
    units,            \* split_ja: local units, sentence + delimiter each
    upos,             \* split_ja: position of the for loop in units
    u,                \* split_ja: local u, what is left of the current unit
    current,          \* split_ja: local current, the chunk being filled
    tpc               \* split_ja: position in split_text

\* the state of main and split_segments
mainvars == <<input_exists, log_exists, mpc, ext, part, effects>>

\* the state of the yt_fukikae pipeline
pipevars == <<yargs, ypc, ywait, yrunning, yevents, yvideo, ystatus>>

\* the state of the stage scripts s2t_multi, translate_to_ja, tts_ja, merge_ja_audio
stagevars == <<script, dir_exists, listing, files, fpos, done_files, failed_files,
               any_error, combined, spc, sstatus>>

\* the state of split_text
textvars == <<text, max_chars, chunks, units, upos, u, current, tpc>>

\* everything outside build_segments
outside == <<mainvars, pipevars, stagevars, textvars>>

vars == <<silence_points, total_duration, min_segment, max_segment,
          points, idx, start, segments, tail_branch, pc, mainvars, pipevars,
          stagevars, textvars>>

args == <<silence_points, total_duration, min_segment, max_segment>>

\* ---- helpers ---------------------------------------------------------------
\* the pipeline is not running
PipeIdle ==
    /\ yargs = [image_only |-> FALSE, input_audio |-> "none", input_thumbnail |-> "none"]
    /\ ypc = "none"
    /\ ywait = FALSE
    /\ yrunning = {}
    /\ yevents = <<>>
    /\ yvideo = "unset"
    /\ ystatus = -1

\* no stage script is running
StagesIdle ==
    /\ script = "none"
    /\ dir_exists = TRUE
    /\ listing = {}
    /\ files = <<>>
    /\ fpos = 0
    /\ done_files = <<>>
    /\ failed_files = <<>>
    /\ any_error = FALSE
    /\ combined = FALSE
    /\ spc = "none"
    /\ sstatus = -1

\* split_text is not being called
TextIdle ==
    /\ text = <<>>
    /\ max_chars = 1
    /\ chunks = <<>>
    /\ units = <<>>
    /\ upos = 0
    /\ u = <<>>
    /\ current = <<>>
    /\ tpc = "none"

RECURSIVE SeqsUpTo(_, _)
SeqsUpTo(S, n) ==
    IF n = 0 THEN {<<>>}
    ELSE LET shorter == SeqsUpTo(S, n - 1)
         IN  shorter \cup {Append(s, x) : s \in {t \in shorter : Len(t) = n - 1}, x \in S}

Range(s) == {s[i] : i \in 1..Len(s)}

Last(s) == s[Len(s)]

\* ---- primitives of build_segments -----------------------------------------
\* only the lower end of the range checked
InRange_NoUpper(sp, total) == 0 < sp

\* the filter condition of the generator expression
InRange(sp, total) == 0 < sp /\ sp < total

RECURSIVE InsertSorted(_, _)
InsertSorted(x, s) ==
    IF s = <<>> THEN <<x>>
    ELSE IF x <= Head(s) THEN <<x>> \o s
    ELSE <<Head(s)>> \o InsertSorted(x, Tail(s))

\* the list left in the caller's order
sorted_Unsorted(s) == s

\* sorted(): ascending order, duplicates kept
RECURSIVE sorted(_)
sorted(s) == IF s = <<>> THEN <<>> ELSE InsertSorted(Head(s), sorted(Tail(s)))

FilterAndSort(sps, total) ==
    sorted(SelectSeq(sps, LAMBDA sp : InRange(sp, total)))

\* the forced-cut loops forgotten: no cut without a silence point
NeedForced_Never(st, target, mx) == FALSE

\* one unit of slack before a cut is forced
NeedForced_Slack(st, target, mx) == st + mx + 1 < target

\* the cursor left out of the comparison
NeedForced_IgnoreStart(st, target, mx) == mx < target

\* condition of both while loops
NeedForced(st, target, mx) == st + mx < target

\* the cut placed at max_segment instead of start + max_segment
Cut_IgnoreStart(st, mx) == mx

\* cut = start + max_segment
Cut(st, mx) == st + mx

\* no forced cut ever accepted
AcceptForced_Never(st, cut, mn) == FALSE

\* acceptance test of a forced cut: cut - start >= min_segment
AcceptForced(st, cut, mn) == cut - st >= mn

\* a point exactly min_segment past the cursor not accepted
AcceptNatural_Strict(seg_len, mn) == seg_len > mn

\* every silence point accepted as a cut
AcceptNatural_Always(seg_len, mn) == TRUE

\* acceptance test of a natural cut: seg_len >= min_segment
AcceptNatural(seg_len, mn) == seg_len >= mn

\* the merge rewrites the start of the last segment as well
TailPolicy_MergeFromZero(segs, st, total, mn) ==
    LET tail_len == total - st
    IN  IF tail_len >= mn THEN <<Append(segs, <<st, total>>), "append">>
        ELSE IF segs # <<>>
             THEN <<[segs EXCEPT ![Len(segs)] = <<0, total>>], "merge">>
             ELSE <<Append(segs, <<0, total>>), "fallback">>

\* nothing emitted when no cut was accepted and the stream is short
TailPolicy_NoFallback(segs, st, total, mn) ==
    LET tail_len == total - st
    IN  IF tail_len >= mn THEN <<Append(segs, <<st, total>>), "append">>
        ELSE IF segs # <<>>
             THEN <<[segs EXCEPT ![Len(segs)] = <<Last(segs)[1], total>>], "merge">>
             ELSE <<segs, "fallback">>

\* a tail exactly min_segment long merged as well
TailPolicy_MergeAtMin(segs, st, total, mn) ==
    LET tail_len == total - st
    IN  IF tail_len > mn THEN <<Append(segs, <<st, total>>), "append">>
        ELSE IF segs # <<>>
             THEN <<[segs EXCEPT ![Len(segs)] = <<Last(segs)[1], total>>], "merge">>
             ELSE <<Append(segs, <<0, total>>), "fallback">>

\* a short tail dropped instead of merged into the last segment
TailPolicy_DropShortTail(segs, st, total, mn) ==
    LET tail_len == total - st
    IN  IF tail_len >= mn THEN <<Append(segs, <<st, total>>), "append">>
        ELSE IF segs # <<>>
             THEN <<segs, "merge">>
             ELSE <<Append(segs, <<0, total>>), "fallback">>

\* the tail always emitted as a standalone final segment
TailPolicy_AlwaysAppend(segs, st, total, mn) ==
    <<Append(segs, <<st, total>>), "append">>

\* step 4: <<segments after the tail policy, branch taken>>
TailPolicy(segs, st, total, mn) ==
    LET tail_len == total - st
    IN  IF tail_len >= mn THEN <<Append(segs, <<st, total>>), "append">>
        ELSE IF segs # <<>>
             THEN <<[segs EXCEPT ![Len(segs)] = <<Last(segs)[1], total>>], "merge">>
             ELSE <<Append(segs, <<0, total>>), "fallback">>

\* ---- build_segments as a pure function --------------------------------------
\* one while loop toward target: <<segments, start>> after the loop
RECURSIVE ForcedCuts(_, _, _, _, _)
ForcedCuts(segs, st, target, mn, mx) ==
    IF NeedForced(st, target, mx) /\ AcceptForced(st, Cut(st, mx), mn)
    THEN ForcedCuts(Append(segs, <<st, Cut(st, mx)>>), Cut(st, mx), target, mn, mx)
    ELSE <<segs, st>>

\* the for loop over the filtered, sorted points from position i on
RECURSIVE Sweep(_, _, _, _, _, _)
Sweep(pts, i, segs, st, mn, mx) ==
    IF i > Len(pts) THEN <<segs, st>>
    ELSE LET f == ForcedCuts(segs, st, pts[i], mn, mx)
             seg_len == pts[i] - f[2]
         IN  IF AcceptNatural(seg_len, mn)
             THEN Sweep(pts, i + 1, Append(f[1], <<f[2], pts[i]>>), pts[i], mn, mx)
             ELSE Sweep(pts, i + 1, f[1], f[2], mn, mx)

BuildSegments(sps, total, mn, mx) ==
    LET s == Sweep(FilterAndSort(sps, total), 1, <<>>, 0, mn, mx)
        f == ForcedCuts(s[1], s[2], total, mn, mx)
    IN  TailPolicy(f[1], f[2], total, mn)[1]

\* ---- build_segments as a step machine ---------------------------------------
Init ==
    /\ silence_points \in SeqsUpTo(PointValues, MaxLen)
    /\ total_duration \in 0..MaxTotal
    /\ min_segment \in 0..MaxMin
    /\ max_segment \in 0..MaxMax
    /\ points = <<>>
    /\ idx = 0
    /\ start = 0
    /\ segments = <<>>
    /\ tail_branch = "none"
    /\ pc = "call"
    /\ input_exists = TRUE
    /\ log_exists = TRUE
    /\ mpc = "none"
    /\ ext = ""
    /\ part = 0
    /\ effects = <<>>
    /\ PipeIdle
    /\ StagesIdle
    /\ TextIdle

\* lines 66-73: segments = [], start = 0.0, filter and sort
Enter ==
    /\ pc = "call"
    /\ segments' = <<>>
    /\ start' = 0
    /\ points' = FilterAndSort(silence_points, total_duration)
    /\ idx' = 1
    /\ pc' = "for"
    /\ UNCHANGED <<args, tail_branch>>
    /\ UNCHANGED outside

\* line 75: the for loop takes the next point, or ends
ForNext ==
    /\ pc = "for"
    /\ pc' = IF idx <= Len(points) THEN "while_sp" ELSE "while_end"
    /\ UNCHANGED <<args, points, idx, start, segments, tail_branch>>
    /\ UNCHANGED outside

\* lines 77-81: one accepted iteration of the while loop toward sp
ForcedCutSp ==
    /\ pc = "while_sp"
    /\ NeedForced(start, points[idx], max_segment)
    /\ AcceptForced(start, Cut(start, max_segment), min_segment)
    /\ Len(segments) < SegCap
    /\ segments' = Append(segments, <<start, Cut(start, max_segment)>>)
    /\ start' = Cut(start, max_segment)
    /\ UNCHANGED <<args, points, idx, tail_branch, pc>>
    /\ UNCHANGED outside

\* line 77: the while loop toward sp ends, its condition is false
ForcedExitSp ==
    /\ pc = "while_sp"
    /\ ~NeedForced(start, points[idx], max_segment)
    /\ pc' = "natural"
    /\ UNCHANGED <<args, points, idx, start, segments, tail_branch>>
    /\ UNCHANGED outside

\* lines 82-83: break, the forced cut would be shorter than min_segment
ForcedBreakSp ==
    /\ pc = "while_sp"
    /\ NeedForced(start, points[idx], max_segment)
    /\ ~AcceptForced(start, Cut(start, max_segment), min_segment)
    /\ pc' = "natural"
    /\ UNCHANGED <<args, points, idx, start, segments, tail_branch>>
    /\ UNCHANGED outside

\* an accepted natural cut appended without advancing the cursor
NaturalCut_KeepCursor ==
    /\ pc = "natural"
    /\ LET sp == points[idx]
           seg_len == sp - start
       IN  IF AcceptNatural(seg_len, min_segment)
           THEN /\ segments' = Append(segments, <<start, sp>>)
                /\ start' = start
           ELSE UNCHANGED <<segments, start>>
    /\ idx' = idx + 1
    /\ pc' = "for"
    /\ UNCHANGED <<args, points, tail_branch>>
    /\ UNCHANGED outside

\* lines 86-89: natural-cut decision at sp, then on to the next point
NaturalCut ==
    /\ pc = "natural"
    /\ LET sp == points[idx]
           seg_len == sp - start
       IN  IF AcceptNatural(seg_len, min_segment)
           THEN /\ segments' = Append(segments, <<start, sp>>)
                /\ start' = sp
           ELSE UNCHANGED <<segments, start>>
    /\ idx' = idx + 1
    /\ pc' = "for"
    /\ UNCHANGED <<args, points, tail_branch>>
    /\ UNCHANGED outside

\* lines 92-96: one accepted iteration of the while loop toward total_duration
ForcedCutEnd ==
    /\ pc = "while_end"
    /\ NeedForced(start, total_duration, max_segment)
    /\ AcceptForced(start, Cut(start, max_segment), min_segment)
    /\ Len(segments) < SegCap
    /\ segments' = Append(segments, <<start, Cut(start, max_segment)>>)
    /\ start' = Cut(start, max_segment)
    /\ UNCHANGED <<args, points, idx, tail_branch, pc>>
    /\ UNCHANGED outside

\* line 92: the while loop toward total_duration ends, its condition is false
ForcedExitEnd ==
    /\ pc = "while_end"
    /\ ~NeedForced(start, total_duration, max_segment)
    /\ pc' = "tail"
    /\ UNCHANGED <<args, points, idx, start, segments, tail_branch>>
    /\ UNCHANGED outside

\* lines 97-98: break, the forced cut would be shorter than min_segment
ForcedBreakEnd ==
    /\ pc = "while_end"
    /\ NeedForced(start, total_duration, max_segment)
    /\ ~AcceptForced(start, Cut(start, max_segment), min_segment)
    /\ pc' = "tail"
    /\ UNCHANGED <<args, points, idx, start, segments, tail_branch>>
    /\ UNCHANGED outside

\* the function returning straight after the loops, step 4 left out
Tail4_Skipped ==
    /\ pc = "tail"
    /\ pc' = "done"
    /\ UNCHANGED <<args, points, idx, start, segments, tail_branch>>
    /\ UNCHANGED outside

\* lines 101-111: tail policy and return
Tail4 ==
    /\ pc = "tail"
    /\ LET r == TailPolicy(segments, start, total_duration, min_segment)
       IN  /\ segments' = r[1]
           /\ tail_branch' = r[2]
    /\ pc' = "done"
    /\ UNCHANGED <<args, points, idx, start>>
    /\ UNCHANGED outside

Next ==
    \/ Enter
    \/ ForNext
    \/ ForcedCutSp
    \/ ForcedExitSp
    \/ ForcedBreakSp
    \/ NaturalCut
    \/ ForcedCutEnd
    \/ ForcedExitEnd
    \/ ForcedBreakEnd
    \/ Tail4

Spec == Init /\ [][Next]_vars

\* the calls of Init with the shorter argument lists
InitFair == Init /\ Len(silence_points) <= MaxLenFair

\* the function runs to completion once called: no step waits on anything
FairSpec == InitFair /\ [][Next]_vars /\ WF_vars(Next)

\* the defaults of --min-segment and --max-segment
DEFAULT_MIN_SEGMENT == 5 * 60

DEFAULT_MAX_SEGMENT == 15 * 60

\* the silence points, in seconds, of the worked examples
ScenarioPoints == {50, 120, 310, 950}

\* build_segments called on the worked examples: a 200 s or 1000 s stream,
\* up to three of the points above, the default bounds in either order
InitScenario ==
    /\ silence_points \in SeqsUpTo(ScenarioPoints, 3)
    /\ total_duration \in {200, 1000}
    /\ min_segment \in {DEFAULT_MIN_SEGMENT, DEFAULT_MAX_SEGMENT}
    /\ max_segment \in {DEFAULT_MIN_SEGMENT, DEFAULT_MAX_SEGMENT}
    /\ points = <<>>
    /\ idx = 0
    /\ start = 0
    /\ segments = <<>>
    /\ tail_branch = "none"
    /\ pc = "call"
    /\ input_exists = TRUE
    /\ log_exists = TRUE
    /\ mpc = "none"
    /\ ext = ""
    /\ part = 0
    /\ effects = <<>>
    /\ PipeIdle
    /\ StagesIdle
    /\ TextIdle

ScenarioSpec == InitScenario /\ [][Next]_vars

\* ---- split_segments and the CLI main ------------------------------------------
DEFAULT_EXT_FALLBACK == ".webm"

DEFAULT_PART_PREFIX == "original_"

PART_INDEX_WIDTH == 2

\* the extensions os.path.splitext can find on the input file; "" is none
InputExts == {"", ".m4a"}

\* decimal digits of a natural number, most significant first
RECURSIVE Digits(_)
Digits(n) == IF n < 10 THEN <<n>> ELSE Digits(n \div 10) \o <<n % 10>>

\* format spec 0{width}d: zero-padded to at least width digits
ZeroPad(d, width) ==
    IF Len(d) >= width THEN d ELSE [k \in 1..(width - Len(d)) |-> 0] \o d

FormatIndex(i) == ZeroPad(Digits(i), PART_INDEX_WIDTH)

\* out_name = f"{part_prefix}{i:0{PART_INDEX_WIDTH}d}{ext}"
OutName(i, e) == <<DEFAULT_PART_PREFIX, FormatIndex(i), e>>

\* the end of the segment passed as -t
ExtractCmd_EndAsDuration(i, seg, e) ==
    [ss |-> seg[1], t |-> seg[2], codec |-> "copy", out |-> OutName(i, e)]

\* the ffmpeg command of one segment: -ss start -t end-start -c copy out_path
\* (f"{start}" and f"{duration}" print the number itself)
ExtractCmd(i, seg, e) ==
    [ss |-> seg[1], t |-> seg[2] - seg[1], codec |-> "copy", out |-> OutName(i, e)]

\* one subprocess run as recorded in effects: its command and exit status
Ran(name, cmd, rc) == [op |-> name, cmd |-> cmd, rc |-> rc]

\* an operation of the process itself as recorded in effects
Did(name) == [op |-> name, cmd |-> <<>>, rc |-> 0]

\* lines 187-189: the input file does not exist
MainMissingInput ==
    /\ mpc = "check"
    /\ ~input_exists
    /\ mpc' = "exit1"
    /\ UNCHANGED <<args, points, idx, start, segments, tail_branch, pc>>
    /\ UNCHANGED <<input_exists, log_exists, ext, part, effects>>
    /\ UNCHANGED <<pipevars, stagevars, textvars>>

\* lines 190-192: the silence log does not exist
MainMissingLog ==
    /\ mpc = "check"
    /\ input_exists
    /\ ~log_exists
    /\ mpc' = "exit1"
    /\ UNCHANGED <<args, points, idx, start, segments, tail_branch, pc>>
    /\ UNCHANGED <<input_exists, log_exists, ext, part, effects>>
    /\ UNCHANGED <<pipevars, stagevars, textvars>>

\* the duration probed without the check of the log file before it
MainProbe_LogUnchecked ==
    /\ mpc = "check"
    /\ input_exists
    /\ \E d \in 0..MaxTotal : total_duration' = d
    /\ effects' = Append(effects, Ran("ffprobe", <<>>, 0))
    /\ mpc' = "parse"
    /\ UNCHANGED <<silence_points, min_segment, max_segment>>
    /\ UNCHANGED <<points, idx, start, segments, tail_branch, pc>>
    /\ UNCHANGED <<input_exists, log_exists, ext, part>>
    /\ UNCHANGED <<pipevars, stagevars, textvars>>

\* line 194: get_duration runs ffprobe and returns the duration it reports
MainProbe ==
    /\ mpc = "check"
    /\ input_exists
    /\ log_exists
    /\ \E d \in 0..MaxTotal : total_duration' = d
    /\ effects' = Append(effects, Ran("ffprobe", <<>>, 0))
    /\ mpc' = "parse"
    /\ UNCHANGED <<silence_points, min_segment, max_segment>>
    /\ UNCHANGED <<points, idx, start, segments, tail_branch, pc>>
    /\ UNCHANGED <<input_exists, log_exists, ext, part>>
    /\ UNCHANGED <<pipevars, stagevars, textvars>>

\* lines 27-38: ffprobe exits non-zero, check=True raises out of main
MainProbeFail ==
    /\ mpc = "check"
    /\ input_exists
    /\ log_exists
    /\ effects' = Append(effects, Ran("ffprobe", <<>>, 1))
    /\ mpc' = "raised"
    /\ UNCHANGED <<args, points, idx, start, segments, tail_branch, pc>>
    /\ UNCHANGED <<input_exists, log_exists, ext, part>>
    /\ UNCHANGED <<pipevars, stagevars, textvars>>

\* line 195: parse_silence_starts reads the silence_start entries of the log
MainParse ==
    /\ mpc = "parse"
    /\ \E l \in SeqsUpTo(PointValues, MaxLenMain) : silence_points' = l
    /\ effects' = Append(effects, Did("read_log"))
    /\ mpc' = "branch"
    /\ UNCHANGED <<total_duration, min_segment, max_segment>>
    /\ UNCHANGED <<points, idx, start, segments, tail_branch, pc>>
    /\ UNCHANGED <<input_exists, log_exists, ext, part>>
    /\ UNCHANGED <<pipevars, stagevars, textvars>>

\* an empty log treated as an error
MainNoSilence_Fatal ==
    /\ mpc = "branch"
    /\ silence_points = <<>>
    /\ mpc' = "exit1"
    /\ UNCHANGED <<args, points, idx, start, segments, tail_branch, pc>>
    /\ UNCHANGED <<input_exists, log_exists, ext, part, effects>>
    /\ UNCHANGED <<pipevars, stagevars, textvars>>

\* an empty log handed to build_segments like any other (where it returns)
MainNoSilence_CallsBuild ==
    /\ mpc = "branch"
    /\ silence_points = <<>>
    /\ segments' = IF max_segment > 0 \/ min_segment > max_segment
                    THEN BuildSegments(silence_points, total_duration,
                                       min_segment, max_segment)
                    ELSE <<<<0, total_duration>>>>
    /\ mpc' = "split"
    /\ UNCHANGED <<args, points, idx, start, tail_branch, pc>>
    /\ UNCHANGED <<input_exists, log_exists, ext, part, effects>>
    /\ UNCHANGED <<pipevars, stagevars, textvars>>

\* lines 198-200: no silence point, the whole file is one segment
MainNoSilence ==
    /\ mpc = "branch"
    /\ silence_points = <<>>
    /\ segments' = <<<<0, total_duration>>>>
    /\ mpc' = "split"
    /\ UNCHANGED <<args, points, idx, start, tail_branch, pc>>
    /\ UNCHANGED <<input_exists, log_exists, ext, part, effects>>
    /\ UNCHANGED <<pipevars, stagevars, textvars>>

\* line 202: the call of build_segments
MainCallBuild ==
    /\ mpc = "branch"
    /\ silence_points # <<>>
    /\ pc' = "call"
    /\ mpc' = "build"
    /\ UNCHANGED <<args, points, idx, start, segments, tail_branch>>
    /\ UNCHANGED <<input_exists, log_exists, ext, part, effects>>
    /\ UNCHANGED <<pipevars, stagevars, textvars>>

\* lines 202-205: build_segments has returned; fallback on an empty list
MainBuilt ==
    /\ mpc = "build"
    /\ pc = "done"
    /\ segments' = IF segments = <<>> THEN <<<<0, total_duration>>>> ELSE segments
    /\ mpc' = "split"
    /\ UNCHANGED <<args, points, idx, start, tail_branch, pc>>
    /\ UNCHANGED <<input_exists, log_exists, ext, part, effects>>
    /\ UNCHANGED <<pipevars, stagevars, textvars>>

\* lines 115-120: makedirs, then the extension of the input file
SplitEnter ==
    /\ mpc = "split"
    /\ effects' = Append(effects, Did("makedirs"))
    /\ \E e \in InputExts : ext' = IF e = "" THEN DEFAULT_EXT_FALLBACK ELSE e
    /\ part' = 1
    /\ mpc' = "extract"
    /\ UNCHANGED <<args, points, idx, start, segments, tail_branch, pc>>
    /\ UNCHANGED <<input_exists, log_exists>>
    /\ UNCHANGED <<pipevars, stagevars, textvars>>

\* lines 122-136: the extraction of segment i runs and exits with status 0
SplitExtract ==
    /\ mpc = "extract"
    /\ part <= Len(segments)
    /\ effects' = Append(effects, Ran("ffmpeg", ExtractCmd(part, segments[part], ext), 0))
    /\ part' = part + 1
    /\ UNCHANGED <<args, points, idx, start, segments, tail_branch, pc>>
    /\ UNCHANGED <<input_exists, log_exists, mpc, ext>>
    /\ UNCHANGED <<pipevars, stagevars, textvars>>

\* a failed extraction ignored (no check=True): the loop goes on
SplitExtractFail_Ignored ==
    /\ mpc = "extract"
    /\ part <= Len(segments)
    /\ effects' = Append(effects, Ran("ffmpeg", ExtractCmd(part, segments[part], ext), 1))
    /\ part' = part + 1
    /\ UNCHANGED <<args, points, idx, start, segments, tail_branch, pc>>
    /\ UNCHANGED <<input_exists, log_exists, mpc, ext>>
    /\ UNCHANGED <<pipevars, stagevars, textvars>>

\* lines 122-136: the extraction of segment i runs and exits non-zero;
\* check=True raises CalledProcessError, nothing catches it
SplitExtractFail ==
    /\ mpc = "extract"
    /\ part <= Len(segments)
    /\ effects' = Append(effects, Ran("ffmpeg", ExtractCmd(part, segments[part], ext), 1))
    /\ mpc' = "raised"
    /\ UNCHANGED <<args, points, idx, start, segments, tail_branch, pc>>
    /\ UNCHANGED <<input_exists, log_exists, ext, part>>
    /\ UNCHANGED <<pipevars, stagevars, textvars>>

\* line 138: the loop is over, "Done." is printed, main returns
SplitDone ==
    /\ mpc = "extract"
    /\ part > Len(segments)
    /\ effects' = Append(effects, Did("print_done"))
    /\ mpc' = "exit0"
    /\ UNCHANGED <<args, points, idx, start, segments, tail_branch, pc>>
    /\ UNCHANGED <<input_exists, log_exists, ext, part>>
    /\ UNCHANGED <<pipevars, stagevars, textvars>>

\* the steps of split_segments
NextSplit ==
    \/ SplitEnter
    \/ SplitExtract
    \/ SplitExtractFail
    \/ SplitDone

\* the steps of the CLI, build_segments and split_segments included
NextMain ==
    \/ MainMissingInput
    \/ MainMissingLog
    \/ MainProbe
    \/ MainProbeFail
    \/ MainParse
    \/ MainNoSilence
    \/ MainCallBuild
    \/ Next
    \/ MainBuilt
    \/ NextSplit

\* the process starts: argparse has set min_segment and max_segment
InitMain ==
    /\ silence_points = <<>>
    /\ total_duration = 0
    /\ min_segment \in 0..MaxMin
    /\ max_segment \in 0..MaxMax
    /\ points = <<>>
    /\ idx = 0
    /\ start = 0
    /\ segments = <<>>
    /\ tail_branch = "none"
    /\ pc = "idle"
    /\ input_exists \in BOOLEAN
    /\ log_exists \in BOOLEAN
    /\ mpc = "check"
    /\ ext = ""
    /\ part = 0
    /\ effects = <<>>
    /\ PipeIdle
    /\ StagesIdle
    /\ TextIdle

MainSpec == InitMain /\ [][NextMain]_vars

\* a list of n unit segments, each starting gap after the previous one ends
PartList(n, gap) == [k \in 1..n |-> <<(k - 1) * (1 + gap), (k - 1) * (1 + gap) + 1>>]

\* split_segments called on an empty, a short or a MaxParts long list (the
\* run over the long list passes through every shorter count of extractions)
InitSplit ==
    /\ silence_points = <<>>
    /\ total_duration = 0
    /\ min_segment = 0
    /\ max_segment = 0
    /\ points = <<>>
    /\ idx = 0
    /\ start = 0
    /\ segments \in {PartList(n, gap) : n \in {0, 1, 2, MaxParts}, gap \in {0, 1}}
    /\ tail_branch = "none"
    /\ pc = "idle"
    /\ input_exists = TRUE
    /\ log_exists = TRUE
    /\ mpc = "split"
    /\ ext = ""
    /\ part = 0
    /\ effects = <<>>
    /\ PipeIdle
    /\ StagesIdle
    /\ TextIdle

SplitSpec == InitSplit /\ [][NextSplit]_vars

\* ---- the yt_fukikae pipeline (src/yt_fukikae.py) ---------------------------------
\* everything of split_by_silence.py
splitvars == <<args, points, idx, start, segments, tail_branch, pc, mainvars>>

\* the positions of main at which run_command starts a subprocess
RunSteps == {"image_overlay", "convert", "detect_silence", "split", "transcribe",
             "translate", "split_text", "tts", "merge", "overlay", "video"}

\* where main goes on when the subprocess started at position s exits with 0
After(s) ==
    CASE s = "image_overlay" -> "image_copy"
      [] s = "convert" -> "detect_silence"
      [] s = "detect_silence" -> "split"
      [] s = "split" -> "transcribe"
      [] s = "transcribe" -> "translate"
      [] s = "translate" -> "split_text"
      [] s = "split_text" -> "tts"
      [] s = "tts" -> "merge"
      [] s = "merge" -> "video_check"
      [] s = "overlay" -> "video"
      [] s = "video" -> "unpack"

\* the step of main (the function it calls) a subprocess position belongs to
StepOf(s) ==
    CASE s = "image_overlay" -> "image"
      [] s = "overlay" -> "video"
      [] OTHER -> s

\* exit statuses a failed subprocess can report (negative: killed by a signal)
FailCodes == {1, 2, -9}

\* sys.exit(e.returncode or 1) as seen by the parent: the low 8 bits
ExitCode(rc) == (IF rc = 0 THEN 1 ELSE rc) % 256

\* lines 698-718: arguments parsed, output directory cleaned and recreated
PipeSetup ==
    /\ ypc = "setup"
    /\ ypc' = "thumbnail"
    /\ UNCHANGED <<yargs, ywait, yrunning, yevents, yvideo, ystatus>>
    /\ UNCHANGED <<splitvars, stagevars, textvars>>

\* lines 720-733: local thumbnail copied, or downloaded in-process (a failed
\* download is only reported); lines 735-736, 755: image-only mode or not
PipeThumbnail ==
    /\ ypc = "thumbnail"
    /\ yargs.input_thumbnail # "missing"
    /\ ypc' = IF yargs.image_only THEN "image_only" ELSE "audio"
    /\ UNCHANGED <<yargs, ywait, yrunning, yevents, yvideo, ystatus>>
    /\ UNCHANGED <<splitvars, stagevars, textvars>>

\* lines 722-724, 822-825: FileNotFoundError for the local thumbnail, exit 1
PipeThumbnailMissing ==
    /\ ypc = "thumbnail"
    /\ yargs.input_thumbnail = "missing"
    /\ ypc' = "exit"
    /\ ystatus' = 1
    /\ UNCHANGED <<yargs, ywait, yrunning, yevents, yvideo>>
    /\ UNCHANGED <<splitvars, stagevars, textvars>>

\* lines 736-738, 403-406: image-only mode; without the base image
\* create_video_thumb_final returns None and main returns
PipeImageOnly ==
    /\ ypc = "image_only"
    /\ \E base_exists \in BOOLEAN :
          IF base_exists
          THEN /\ ypc' = "image_overlay"
               /\ ystatus' = ystatus
          ELSE /\ ypc' = "exit"
               /\ ystatus' = 0
    /\ UNCHANGED <<yargs, ywait, yrunning, yevents, yvideo>>
    /\ UNCHANGED <<splitvars, stagevars, textvars>>

\* lines 749-752: the overlay image is copied (a failed copy is only
\* reported), main returns
PipeImageCopy ==
    /\ ypc = "image_copy"
    /\ yevents' = Append(yevents, [kind |-> "step", step |-> "copy", rc |-> 0])
    /\ ypc' = "exit"
    /\ ystatus' = 0
    /\ UNCHANGED <<yargs, ywait, yrunning, yvideo>>
    /\ UNCHANGED <<splitvars, stagevars, textvars>>

\* lines 756-764: the audio is a local file that exists, or yt-dlp downloaded it
PipeAudio ==
    /\ ypc = "audio"
    /\ yargs.input_audio # "missing"
    /\ ypc' = "convert"
    /\ UNCHANGED <<yargs, ywait, yrunning, yevents, yvideo, ystatus>>
    /\ UNCHANGED <<splitvars, stagevars, textvars>>

\* lines 759-760 (FileNotFoundError) or 141-142 (yt-dlp raises); 822-825: exit 1
PipeAudioFail ==
    /\ ypc = "audio"
    /\ yargs.input_audio \in {"missing", "none"}
    /\ ypc' = "exit"
    /\ ystatus' = 1
    /\ UNCHANGED <<yargs, ywait, yrunning, yevents, yvideo>>
    /\ UNCHANGED <<splitvars, stagevars, textvars>>

\* lines 108-113: run_command starts the subprocess of this step and waits
RunStart ==
    /\ ypc \in RunSteps
    /\ ~ywait
    /\ yrunning' = yrunning \cup {ypc}
    /\ ywait' = TRUE
    /\ yevents' = Append(yevents, [kind |-> "start", step |-> StepOf(ypc), rc |-> 0])
    /\ UNCHANGED <<yargs, ypc, yvideo, ystatus>>
    /\ UNCHANGED <<splitvars, stagevars, textvars>>

\* lines 113-114: the subprocess exits with 0, the step function returns
RunOk ==
    /\ ywait
    /\ \E s \in yrunning :
          /\ yrunning' = yrunning \ {s}
          /\ yevents' = Append(yevents, [kind |-> "exit", step |-> StepOf(s), rc |-> 0])
          /\ ypc' = After(s)
          /\ yvideo' = IF s = "video" THEN "pair" ELSE yvideo
    /\ ywait' = FALSE
    /\ UNCHANGED <<yargs, ystatus>>
    /\ UNCHANGED <<splitvars, stagevars, textvars>>

\* a failed subprocess only reported, main going on with the next step
RunFail_Swallowed ==
    /\ ywait
    /\ \E s \in yrunning, rc \in FailCodes :
          /\ yrunning' = yrunning \ {s}
          /\ yevents' = Append(yevents, [kind |-> "exit", step |-> StepOf(s), rc |-> rc])
          /\ ypc' = After(s)
          /\ yvideo' = IF s = "video" THEN "pair" ELSE yvideo
    /\ ywait' = FALSE
    /\ UNCHANGED <<yargs, ystatus>>
    /\ UNCHANGED <<splitvars, stagevars, textvars>>

\* lines 115-117, 815-821: the subprocess exits non-zero, CalledProcessError
\* is re-raised up to __main__, which exits with e.returncode or 1
RunFail ==
    /\ ywait
    /\ \E s \in yrunning, rc \in FailCodes :
          /\ yrunning' = yrunning \ {s}
          /\ yevents' = Append(yevents, [kind |-> "exit", step |-> StepOf(s), rc |-> rc])
          /\ ystatus' = ExitCode(rc)
    /\ ypc' = "exit"
    /\ ywait' = FALSE
    /\ UNCHANGED <<yargs, yvideo>>
    /\ UNCHANGED <<splitvars, stagevars, textvars>>

\* lines 511-529, 403-406: create_video_from_audio; without the merged audio
\* or the base image it returns None, otherwise it goes on to the overlay
PipeVideoCheck ==
    /\ ypc = "video_check"
    /\ \E audio_exists, base_exists \in BOOLEAN :
          IF audio_exists /\ base_exists
          THEN /\ ypc' = "overlay"
               /\ yvideo' = yvideo
          ELSE /\ ypc' = "unpack"
               /\ yvideo' = "None"
    /\ UNCHANGED <<yargs, ywait, yrunning, yevents, ystatus>>
    /\ UNCHANGED <<splitvars, stagevars, textvars>>

\* line 792: video_final, video_thumb_final = <the pair returned>
PipeUnpack ==
    /\ ypc = "unpack"
    /\ yvideo = "pair"
    /\ ypc' = "copy"
    /\ UNCHANGED <<yargs, ywait, yrunning, yevents, yvideo, ystatus>>
    /\ UNCHANGED <<splitvars, stagevars, textvars>>

\* line 792 on None: TypeError (cannot unpack); lines 822-825: exit 1
PipeUnpackNone ==
    /\ ypc = "unpack"
    /\ yvideo = "None"
    /\ ypc' = "exit"
    /\ ystatus' = 1
    /\ UNCHANGED <<yargs, ywait, yrunning, yevents, yvideo>>
    /\ UNCHANGED <<splitvars, stagevars, textvars>>

\* lines 805-809: both copies (a failed copy is only reported), main returns
PipeCopy ==
    /\ ypc = "copy"
    /\ yevents' = Append(yevents, [kind |-> "step", step |-> "copy", rc |-> 0])
    /\ ypc' = "exit"
    /\ ystatus' = 0
    /\ UNCHANGED <<yargs, ywait, yrunning, yvideo>>
    /\ UNCHANGED <<splitvars, stagevars, textvars>>

NextPipe ==
    \/ PipeSetup
    \/ PipeThumbnail
    \/ PipeThumbnailMissing
    \/ PipeImageOnly
    \/ PipeImageCopy
    \/ PipeAudio
    \/ PipeAudioFail
    \/ RunStart
    \/ RunOk
    \/ RunFail
    \/ PipeVideoCheck
    \/ PipeUnpack
    \/ PipeUnpackNone
    \/ PipeCopy

\* the process starts with some combination of --image-only, --input-audio
\* (none, a file that exists, a missing file) and --input-thumbnail
InitPipe ==
    /\ silence_points = <<>>
    /\ total_duration = 0
    /\ min_segment = 0
    /\ max_segment = 0
    /\ points = <<>>
    /\ idx = 0
    /\ start = 0
    /\ segments = <<>>
    /\ tail_branch = "none"
    /\ pc = "idle"
    /\ input_exists = TRUE
    /\ log_exists = TRUE
    /\ mpc = "none"
    /\ ext = ""
    /\ part = 0
    /\ effects = <<>>
    /\ yargs \in [image_only : BOOLEAN,
                  input_audio : {"none", "exists", "missing"},
                  input_thumbnail : {"none", "exists", "missing"}]
    /\ ypc = "setup"
    /\ ywait = FALSE
    /\ yrunning = {}
    /\ yevents = <<>>
    /\ yvideo = "unset"
    /\ ystatus = -1
    /\ StagesIdle
    /\ TextIdle

PipeSpec == InitPipe /\ [][NextPipe]_vars

\* ---- the stage scripts the pipeline launches ------------------------------------
\* bound: the number of digit strings a work directory can hold
MaxNames == 4

\* the numbered part of the file names of a work directory, as digit strings;
\* <<>> stands for a name the pattern prefix\d+ext does not match
NamePool == <<<<0, 1>>, <<0, 2>>, <<1, 0>>, <<2>>, <<1, 0, 0>>>>

Names == {NamePool[k] : k \in 1..MaxNames} \cup {<<>>}

\* order of str on names with the same prefix and extension: digit by digit,
\* the extension's "." sorting before every digit
RECURSIVE NameLess(_, _)
NameLess(a, b) ==
    IF a = <<>> THEN b # <<>>
    ELSE IF b = <<>> THEN FALSE
    ELSE IF Head(a) # Head(b) THEN Head(a) < Head(b)
    ELSE NameLess(Tail(a), Tail(b))

\* sorted(os.listdir(dir))
RECURSIVE SortedNames(_)
SortedNames(S) ==
    IF S = {} THEN <<>>
    ELSE LET m == CHOOSE x \in S : \A y \in S \ {x} : NameLess(x, y)
         IN  <<m>> \o SortedNames(S \ {m})

\* pattern.match(name): at least one digit after the prefix
Matches(name) == name # <<>>

\* translate_to_ja lines 182-184: not a directory, main returns
TrNoDir ==
    /\ script = "translate_to_ja" /\ spc = "start"
    /\ ~dir_exists
    /\ spc' = "exited"
    /\ sstatus' = 0
    /\ UNCHANGED <<script, dir_exists, listing, files, fpos, done_files, failed_files,
                   any_error, combined>>
    /\ UNCHANGED <<splitvars, pipevars, textvars>>

\* translate_to_ja lines 193-200: the matching names in sorted order; none, main returns
TrList ==
    /\ script = "translate_to_ja" /\ spc = "start"
    /\ dir_exists
    /\ files' = SortedNames({n \in listing : Matches(n)})
    /\ IF files' = <<>>
       THEN spc' = "exited" /\ sstatus' = 0 /\ fpos' = fpos
       ELSE spc' = "loop" /\ sstatus' = sstatus /\ fpos' = 1
    /\ UNCHANGED <<script, dir_exists, listing, done_files, failed_files, any_error, combined>>
    /\ UNCHANGED <<splitvars, pipevars, textvars>>

\* translate_to_ja lines 217-229: process_file translated files[fpos] and wrote it
TrItemOk ==
    /\ script = "translate_to_ja" /\ spc = "loop"
    /\ fpos <= Len(files)
    /\ done_files' = Append(done_files, files[fpos])
    /\ fpos' = fpos + 1
    /\ UNCHANGED <<script, dir_exists, listing, files, failed_files, any_error, combined,
                   spc, sstatus>>
    /\ UNCHANGED <<splitvars, pipevars, textvars>>

\* the error recorded, the loop going on with the next file
TrItemFail_Continue ==
    /\ script = "translate_to_ja" /\ spc = "loop"
    /\ fpos <= Len(files)
    /\ failed_files' = Append(failed_files, files[fpos])
    /\ any_error' = TRUE
    /\ fpos' = fpos + 1
    /\ UNCHANGED <<script, dir_exists, listing, files, done_files, combined, spc, sstatus>>
    /\ UNCHANGED <<splitvars, pipevars, textvars>>

\* translate_to_ja lines 230-233: process_file raised; any_error = True, break
TrItemFail ==
    /\ script = "translate_to_ja" /\ spc = "loop"
    /\ fpos <= Len(files)
    /\ failed_files' = Append(failed_files, files[fpos])
    /\ any_error' = TRUE
    /\ spc' = "after_loop"
    /\ UNCHANGED <<script, dir_exists, listing, files, fpos, done_files, combined, sstatus>>
    /\ UNCHANGED <<splitvars, pipevars, textvars>>

\* translate_to_ja line 217: the for loop is exhausted
TrLoopEnd ==
    /\ script = "translate_to_ja" /\ spc = "loop"
    /\ fpos > Len(files)
    /\ spc' = "after_loop"
    /\ UNCHANGED <<script, dir_exists, listing, files, fpos, done_files, failed_files,
                   any_error, combined, sstatus>>
    /\ UNCHANGED <<splitvars, pipevars, textvars>>

\* translate_to_ja lines 235-238: any_error, sys.exit(1)
TrAbort ==
    /\ script = "translate_to_ja" /\ spc = "after_loop"
    /\ any_error
    /\ spc' = "exited"
    /\ sstatus' = 1
    /\ UNCHANGED <<script, dir_exists, listing, files, fpos, done_files, failed_files,
                   any_error, combined>>
    /\ UNCHANGED <<splitvars, pipevars, textvars>>

\* translate_to_ja lines 242-257: the translated files are listed (every file
\* written by the loop is among them) and build_combined_file writes the
\* combined file
TrCombine ==
    /\ script = "translate_to_ja" /\ spc = "after_loop"
    /\ ~any_error
    /\ combined' = (done_files # <<>>)
    /\ spc' = "exited"
    /\ sstatus' = 0
    /\ UNCHANGED <<script, dir_exists, listing, files, fpos, done_files, failed_files,
                   any_error>>
    /\ UNCHANGED <<splitvars, pipevars, textvars>>

NextTranslate ==
    \/ TrNoDir
    \/ TrList
    \/ TrItemOk
    \/ TrItemFail
    \/ TrLoopEnd
    \/ TrAbort
    \/ TrCombine

\* pattern.match(name) of tts_ja and merge_ja_audio: exactly two digits
Matches2(name) == Len(name) = 2

\* s2t_multi lines 65-67: not a directory, main returns
S2tNoDir ==
    /\ script = "s2t_multi" /\ spc = "start"
    /\ ~dir_exists
    /\ spc' = "exited"
    /\ sstatus' = 0
    /\ UNCHANGED <<script, dir_exists, listing, files, fpos, done_files, failed_files,
                   any_error, combined>>
    /\ UNCHANGED <<splitvars, pipevars, textvars>>

\* s2t_multi lines 74-87: the matching names in sorted order; none, main returns
S2tList ==
    /\ script = "s2t_multi" /\ spc = "start"
    /\ dir_exists
    /\ files' = SortedNames({n \in listing : Matches(n)})
    /\ IF files' = <<>>
       THEN spc' = "exited" /\ sstatus' = 0 /\ fpos' = fpos
       ELSE spc' = "loop" /\ sstatus' = sstatus /\ fpos' = 1
    /\ UNCHANGED <<script, dir_exists, listing, done_files, failed_files, any_error, combined>>
    /\ UNCHANGED <<splitvars, pipevars, textvars>>

\* s2t_multi lines 98-117: the transcription of files[fpos] succeeded, its output is written
S2tItemOk ==
    /\ script = "s2t_multi" /\ spc = "loop"
    /\ fpos <= Len(files)
    /\ done_files' = Append(done_files, files[fpos])
    /\ fpos' = fpos + 1
    /\ UNCHANGED <<script, dir_exists, listing, files, failed_files, any_error, combined,
                   spc, sstatus>>
    /\ UNCHANGED <<splitvars, pipevars, textvars>>

\* s2t_multi lines 118-119: the transcription of files[fpos] raised; the error is
\* printed and the loop goes on
S2tItemFail ==
    /\ script = "s2t_multi" /\ spc = "loop"
    /\ fpos <= Len(files)
    /\ failed_files' = Append(failed_files, files[fpos])
    /\ fpos' = fpos + 1
    /\ UNCHANGED <<script, dir_exists, listing, files, done_files, any_error, combined,
                   spc, sstatus>>
    /\ UNCHANGED <<splitvars, pipevars, textvars>>

\* s2t_multi lines 121-122: the loop is exhausted, main returns
S2tDone ==
    /\ script = "s2t_multi" /\ spc = "loop"
    /\ fpos > Len(files)
    /\ spc' = "exited"
    /\ sstatus' = 0
    /\ UNCHANGED <<script, dir_exists, listing, files, fpos, done_files, failed_files,
                   any_error, combined>>
    /\ UNCHANGED <<splitvars, pipevars, textvars>>

\* tts_ja lines 110-112: not a directory, main returns
TtsNoDir ==
    /\ script = "tts_ja" /\ spc = "start"
    /\ ~dir_exists
    /\ spc' = "exited"
    /\ sstatus' = 0
    /\ UNCHANGED <<script, dir_exists, listing, files, fpos, done_files, failed_files,
                   any_error, combined>>
    /\ UNCHANGED <<splitvars, pipevars, textvars>>

\* tts_ja lines 117-127: the matching names in sorted order; none, main returns
TtsList ==
    /\ script = "tts_ja" /\ spc = "start"
    /\ dir_exists
    /\ files' = SortedNames({n \in listing : Matches2(n)})
    /\ IF files' = <<>>
       THEN spc' = "exited" /\ sstatus' = 0 /\ fpos' = fpos
       ELSE spc' = "loop" /\ sstatus' = sstatus /\ fpos' = 1
    /\ UNCHANGED <<script, dir_exists, listing, done_files, failed_files, any_error, combined>>
    /\ UNCHANGED <<splitvars, pipevars, textvars>>

\* tts_ja lines 149-185: the synthesis of files[fpos] succeeded, its output is written
TtsItemOk ==
    /\ script = "tts_ja" /\ spc = "loop"
    /\ fpos <= Len(files)
    /\ done_files' = Append(done_files, files[fpos])
    /\ fpos' = fpos + 1
    /\ UNCHANGED <<script, dir_exists, listing, files, failed_files, any_error, combined,
                   spc, sstatus>>
    /\ UNCHANGED <<splitvars, pipevars, textvars>>

\* tts_ja lines 186-187: the synthesis of files[fpos] raised; the error is
\* printed and the loop goes on
TtsItemFail ==
    /\ script = "tts_ja" /\ spc = "loop"
    /\ fpos <= Len(files)
    /\ failed_files' = Append(failed_files, files[fpos])
    /\ fpos' = fpos + 1
    /\ UNCHANGED <<script, dir_exists, listing, files, done_files, any_error, combined,
                   spc, sstatus>>
    /\ UNCHANGED <<splitvars, pipevars, textvars>>

\* tts_ja lines 159-161: the text of files[fpos] is empty, the file is skipped
TtsItemEmpty ==
    /\ script = "tts_ja" /\ spc = "loop"
    /\ fpos <= Len(files)
    /\ fpos' = fpos + 1
    /\ UNCHANGED <<script, dir_exists, listing, files, done_files, failed_files, any_error,
                   combined, spc, sstatus>>
    /\ UNCHANGED <<splitvars, pipevars, textvars>>

\* tts_ja lines 189-190: the loop is exhausted, main returns
TtsDone ==
    /\ script = "tts_ja" /\ spc = "loop"
    /\ fpos > Len(files)
    /\ spc' = "exited"
    /\ sstatus' = 0
    /\ UNCHANGED <<script, dir_exists, listing, files, fpos, done_files, failed_files,
                   any_error, combined>>
    /\ UNCHANGED <<splitvars, pipevars, textvars>>

\* merge_ja_audio lines 75-77: not a directory, main returns
MergeNoDir ==
    /\ script = "merge_ja_audio" /\ spc = "start"
    /\ ~dir_exists
    /\ spc' = "exited"
    /\ sstatus' = 0
    /\ UNCHANGED <<script, dir_exists, listing, files, fpos, done_files, failed_files,
                   any_error, combined>>
    /\ UNCHANGED <<splitvars, pipevars, textvars>>

\* merge_ja_audio lines 80-106: the matching names in order, written to the
\* concat list; none, main returns
MergeList ==
    /\ script = "merge_ja_audio" /\ spc = "start"
    /\ dir_exists
    /\ files' = SortedNames({n \in listing : Matches2(n)})
    /\ IF files' = <<>>
       THEN spc' = "exited" /\ sstatus' = 0
       ELSE spc' = "run" /\ sstatus' = sstatus
    /\ UNCHANGED <<script, dir_exists, listing, fpos, done_files, failed_files, any_error,
                   combined>>
    /\ UNCHANGED <<splitvars, pipevars, textvars>>

\* merge_ja_audio lines 108-132, 135-140: ffmpeg exits with 0, the merged file
\* is written, main returns
MergeOk ==
    /\ script = "merge_ja_audio" /\ spc = "run"
    /\ done_files' = files
    /\ combined' = TRUE
    /\ spc' = "exited"
    /\ sstatus' = 0
    /\ UNCHANGED <<script, dir_exists, listing, files, fpos, failed_files, any_error>>
    /\ UNCHANGED <<splitvars, pipevars, textvars>>

\* merge_ja_audio lines 130, 133-140: ffmpeg exits non-zero; CalledProcessError
\* is caught and printed, main returns
MergeFail ==
    /\ script = "merge_ja_audio" /\ spc = "run"
    /\ failed_files' = files
    /\ spc' = "exited"
    /\ sstatus' = 0
    /\ UNCHANGED <<script, dir_exists, listing, files, fpos, done_files, any_error, combined>>
    /\ UNCHANGED <<splitvars, pipevars, textvars>>

\* yt_fukikae run_command lines 113-114: the stage exited with 0, the step
\* function returns and main starts the next step
OrchNext ==
    /\ spc = "exited"
    /\ sstatus = 0
    /\ spc' = "next_started"
    /\ UNCHANGED <<script, dir_exists, listing, files, fpos, done_files, failed_files,
                   any_error, combined, sstatus>>
    /\ UNCHANGED <<splitvars, pipevars, textvars>>

\* yt_fukikae run_command lines 115-117: the stage exited non-zero,
\* CalledProcessError ends the pipeline
OrchAbort ==
    /\ spc = "exited"
    /\ sstatus # 0
    /\ spc' = "aborted"
    /\ UNCHANGED <<script, dir_exists, listing, files, fpos, done_files, failed_files,
                   any_error, combined, sstatus>>
    /\ UNCHANGED <<splitvars, pipevars, textvars>>

NextStage ==
    \/ NextTranslate
    \/ S2tNoDir
    \/ S2tList
    \/ S2tItemOk
    \/ S2tItemFail
    \/ S2tDone
    \/ TtsNoDir
    \/ TtsList
    \/ TtsItemOk
    \/ TtsItemFail
    \/ TtsItemEmpty
    \/ TtsDone
    \/ MergeNoDir
    \/ MergeList
    \/ MergeOk
    \/ MergeFail
    \/ OrchNext
    \/ OrchAbort

\* the scripts the pipeline launches on a work directory
StageScripts == {"s2t_multi", "translate_to_ja", "tts_ja", "merge_ja_audio"}

\* a stage script has been launched on a work directory that exists or not
\* and holds any of the names
InitStage ==
    /\ silence_points = <<>>
    /\ total_duration = 0
    /\ min_segment = 0
    /\ max_segment = 0
    /\ points = <<>>
    /\ idx = 0
    /\ start = 0
    /\ segments = <<>>
    /\ tail_branch = "none"
    /\ pc = "idle"
    /\ input_exists = TRUE
    /\ log_exists = TRUE
    /\ mpc = "none"
    /\ ext = ""
    /\ part = 0
    /\ effects = <<>>
    /\ PipeIdle
    /\ TextIdle
    /\ script \in StageScripts
    /\ dir_exists \in BOOLEAN
    /\ listing \in SUBSET Names
    /\ files = <<>>
    /\ fpos = 0
    /\ done_files = <<>>
    /\ failed_files = <<>>
    /\ any_error = FALSE
    /\ combined = FALSE
    /\ spc = "start"
    /\ sstatus = -1

StageSpec == InitStage /\ [][NextStage]_vars

\* ---- split_text of split_ja -------------------------------------------------------
\* bounds: longest text and largest max_chars
MaxText == 4

MaxChars == 3

\* the characters that matter to split_text: carriage return, line feed, the
\* ideographic full stop (written K here), a space, any other character
CR == "\r"

LF == "\n"

KUTEN == "K"

Chars == {CR, LF, KUTEN, " ", "a"}

\* str.replace("\r\n", "\n"): left to right, non-overlapping
RECURSIVE ReplaceCRLF(_)
ReplaceCRLF(t) ==
    IF t = <<>> THEN <<>>
    ELSE IF Len(t) >= 2 /\ t[1] = CR /\ t[2] = LF
         THEN <<LF>> \o ReplaceCRLF(SubSeq(t, 3, Len(t)))
         ELSE <<t[1]>> \o ReplaceCRLF(Tail(t))

\* str.replace("\r", "\n")
ReplaceCR(t) == [k \in 1..Len(t) |-> IF t[k] = CR THEN LF ELSE t[k]]

\* line 20: the newline normalisation
NormalizeNewlines(t) == ReplaceCR(ReplaceCRLF(t))

\* lines 23-30: re.split with the captured delimiter, then each piece joined
\* with the delimiter after it, empty results left out; cur is the piece read
\* so far
RECURSIVE SplitUnits(_, _)
SplitUnits(t, cur) ==
    IF t = <<>> THEN (IF cur = <<>> THEN <<>> ELSE <<cur>>)
    ELSE IF Head(t) \in {KUTEN, LF}
         THEN <<Append(cur, Head(t))>> \o SplitUnits(Tail(t), <<>>)
         ELSE SplitUnits(Tail(t), Append(cur, Head(t)))

\* str.strip() leaves something: some character is not whitespace
StripNonEmpty(t) == \E k \in 1..Len(t) : t[k] \notin {CR, LF, " "}

\* u[:max_chars] and u[max_chars:]
Take(t, n) == SubSeq(t, 1, IF n < Len(t) THEN n ELSE Len(t))

Drop(t, n) == SubSeq(t, n + 1, Len(t))

\* lines 20-33: normalisation and units; chunks = [], current = ""
TextEnter ==
    /\ tpc = "call"
    /\ units' = SplitUnits(NormalizeNewlines(text), <<>>)
    /\ chunks' = <<>>
    /\ current' = <<>>
    /\ upos' = 1
    /\ tpc' = "for"
    /\ UNCHANGED <<text, max_chars, u>>
    /\ UNCHANGED <<splitvars, pipevars, stagevars>>

\* lines 35-38: the unit fits into current
TextFits ==
    /\ tpc = "for"
    /\ upos <= Len(units)
    /\ Len(current) + Len(units[upos]) <= max_chars
    /\ current' = current \o units[upos]
    /\ upos' = upos + 1
    /\ UNCHANGED <<text, max_chars, chunks, units, u, tpc>>
    /\ UNCHANGED <<splitvars, pipevars, stagevars>>

\* lines 41-42: current is empty and the unit alone is too long
TextOversized ==
    /\ tpc = "for"
    /\ upos <= Len(units)
    /\ Len(current) + Len(units[upos]) > max_chars
    /\ current = <<>>
    /\ u' = units[upos]
    /\ tpc' = "while"
    /\ UNCHANGED <<text, max_chars, chunks, units, upos, current>>
    /\ UNCHANGED <<splitvars, pipevars, stagevars>>

\* current kept and the unit put after it, whatever the length
TextFlush_Overfill ==
    /\ tpc = "for"
    /\ upos <= Len(units)
    /\ Len(current) + Len(units[upos]) > max_chars
    /\ current # <<>>
    /\ current' = current \o units[upos]
    /\ upos' = upos + 1
    /\ UNCHANGED <<text, max_chars, chunks, units, u, tpc>>
    /\ UNCHANGED <<splitvars, pipevars, stagevars>>

\* the chunk dropped instead of appended when the next unit does not fit
TextFlush_Lost ==
    /\ tpc = "for"
    /\ upos <= Len(units)
    /\ Len(current) + Len(units[upos]) > max_chars
    /\ current # <<>>
    /\ chunks' = chunks
    /\ IF Len(units[upos]) <= max_chars
       THEN /\ current' = units[upos]
            /\ upos' = upos + 1
            /\ UNCHANGED <<u, tpc>>
       ELSE /\ current' = <<>>
            /\ u' = units[upos]
            /\ tpc' = "while"
            /\ upos' = upos
    /\ UNCHANGED <<text, max_chars, units>>
    /\ UNCHANGED <<splitvars, pipevars, stagevars>>

\* lines 49-54: current is closed; the unit starts the next chunk, or goes to
\* the forced split when it is too long by itself
TextFlush ==
    /\ tpc = "for"
    /\ upos <= Len(units)
    /\ Len(current) + Len(units[upos]) > max_chars
    /\ current # <<>>
    /\ chunks' = Append(chunks, current)
    /\ IF Len(units[upos]) <= max_chars
       THEN /\ current' = units[upos]
            /\ upos' = upos + 1
            /\ UNCHANGED <<u, tpc>>
       ELSE /\ current' = <<>>
            /\ u' = units[upos]
            /\ tpc' = "while"
            /\ upos' = upos
    /\ UNCHANGED <<text, max_chars, units>>
    /\ UNCHANGED <<splitvars, pipevars, stagevars>>

\* lines 42-44 and 56-58: one iteration of the forced split
TextForceCut ==
    /\ tpc = "while"
    /\ Len(u) > max_chars
    /\ chunks' = Append(chunks, Take(u, max_chars))
    /\ u' = Drop(u, max_chars)
    /\ UNCHANGED <<text, max_chars, units, upos, current, tpc>>
    /\ UNCHANGED <<splitvars, pipevars, stagevars>>

\* lines 45-47 and 59-60: the forced split is over, what is left starts the
\* next chunk
TextForceEnd ==
    /\ tpc = "while"
    /\ Len(u) <= max_chars
    /\ current' = IF u # <<>> THEN u ELSE current
    /\ upos' = upos + 1
    /\ tpc' = "for"
    /\ UNCHANGED <<text, max_chars, chunks, units, u>>
    /\ UNCHANGED <<splitvars, pipevars, stagevars>>

\* lines 62-65: the loop is exhausted; current is appended unless it is empty
\* or whitespace only; return chunks
TextReturn ==
    /\ tpc = "for"
    /\ upos > Len(units)
    /\ chunks' = IF StripNonEmpty(current) THEN Append(chunks, current) ELSE chunks
    /\ tpc' = "done"
    /\ UNCHANGED <<text, max_chars, units, upos, u, current>>
    /\ UNCHANGED <<splitvars, pipevars, stagevars>>

NextText ==
    \/ TextEnter
    \/ TextFits
    \/ TextOversized
    \/ TextFlush
    \/ TextForceCut
    \/ TextForceEnd
    \/ TextReturn

\* split_text called on any text of the bounds with max_chars >= 1
InitText ==
    /\ silence_points = <<>>
    /\ total_duration = 0
    /\ min_segment = 0
    /\ max_segment = 0
    /\ points = <<>>
    /\ idx = 0
    /\ start = 0
    /\ segments = <<>>
    /\ tail_branch = "none"
    /\ pc = "idle"
    /\ input_exists = TRUE
    /\ log_exists = TRUE
    /\ mpc = "none"
    /\ ext = ""
    /\ part = 0
    /\ effects = <<>>
    /\ PipeIdle
    /\ StagesIdle
    /\ text \in SeqsUpTo(Chars, MaxText)
    /\ max_chars \in 1..MaxChars
    /\ chunks = <<>>
    /\ units = <<>>
    /\ upos = 0
    /\ u = <<>>
    /\ current = <<>>
    /\ tpc = "call"

TextSpec == InitText /\ [][NextText]_vars

\* split_text runs to completion once called: no step waits on anything
TextFairSpec == InitText /\ [][NextText]_vars /\ WF_vars(NextText)

\* ---- vocabulary of the properties -------------------------------------------
ValidConfig ==
    /\ total_duration > 0
    /\ 0 < min_segment
    /\ min_segment < max_segment

Returned == pc = "done"

Dur(seg) == seg[2] - seg[1]

TypeOK ==
    /\ pc \in {"idle", "call", "for", "while_sp", "natural", "while_end", "tail", "done"}
    /\ mpc \in {"none", "check", "parse", "branch", "build", "split", "extract",
                "exit0", "exit1", "raised"}
    /\ tail_branch \in {"none", "append", "merge", "fallback"}
    /\ mpc = "none" => Len(segments) <= SegCap + MaxLen + 1

\* the step machine returns what the pure function returns
MachineIsFunction ==
    (Returned /\ (max_segment > 0 \/ max_segment < min_segment))
        => segments = BuildSegments(silence_points, total_duration, min_segment, max_segment)

\* ---- properties of the returned segment list ---------------------------------
\* C1: for every valid input the returned segments exactly cover
\* [0, total_duration): the first starts at 0, the last ends at
\* total_duration, and each segment ends where the next one starts.
C1_Coverage ==
    (Returned /\ ValidConfig) =>
        /\ segments # <<>>
        /\ segments[1][1] = 0
        /\ Last(segments)[2] = total_duration
        /\ \A i \in 1..(Len(segments) - 1) : segments[i][2] = segments[i + 1][1]

\* a run with natural cuts, a forced cut and a merged tail
C1_Witness ==
    /\ Returned /\ ValidConfig
    /\ Len(segments) >= 2
    /\ tail_branch = "merge"
    /\ start \in Range(points)
    /\ \E i \in 1..(Len(segments) - 1) : segments[i][2] \notin Range(points)

\* C2: for every valid input every returned segment satisfies
\* 0 <= start < end <= total_duration, and the segments are in strictly
\* increasing start order.
C2_WellFormedOrdered ==
    (Returned /\ ValidConfig) =>
        /\ \A i \in 1..Len(segments) :
              /\ 0 <= segments[i][1]
              /\ segments[i][1] < segments[i][2]
              /\ segments[i][2] <= total_duration
        /\ \A i, j \in 1..Len(segments) : i < j => segments[i][1] < segments[j][1]

\* a run on a list with a repeated in-range point that was cut at
C2_Witness ==
    /\ Returned /\ ValidConfig
    /\ Len(segments) >= 3
    /\ \E i, j \in 1..Len(points) :
          /\ i < j /\ points[i] = points[j]
          /\ \E k \in 1..Len(segments) : segments[k][2] = points[i]

\* C3: for every valid input a returned segment is shorter than min_segment
\* only when it is the sole segment; with two or more segments every one,
\* the last included, lasts at least min_segment.
C3_LowerBound ==
    (Returned /\ ValidConfig) =>
        \A i \in 1..Len(segments) :
            Dur(segments[i]) < min_segment => Len(segments) = 1

\* a short tail was left behind two or more segments and folded into the last
C3_Witness ==
    /\ Returned /\ ValidConfig
    /\ Len(segments) >= 2
    /\ tail_branch = "merge"
    /\ total_duration - start < min_segment

RECURSIVE AscendingSeq(_)
AscendingSeq(S) ==
    IF S = {} THEN <<>>
    ELSE LET m == CHOOSE x \in S : \A y \in S : x <= y
         IN  <<m>> \o AscendingSeq(S \ {m})

C7_Outside(p) == p <= 0 \/ p >= total_duration

\* C7: silence points outside (0, total_duration), 0 and total_duration
\* included, have no effect: the result is that of the list with all such
\* points removed, and no returned boundary is such a point other than 0 and
\* total_duration themselves.
C7_OutsidePointsIgnored ==
    Returned =>
        /\ segments = BuildSegments(
                          SelectSeq(silence_points, LAMBDA p : ~C7_Outside(p)),
                          total_duration, min_segment, max_segment)
        /\ \A i \in 1..Len(segments) : \A b \in {segments[i][1], segments[i][2]} :
              (b \in Range(silence_points) /\ C7_Outside(b))
                  => b \in {0, total_duration}

\* the list holds 0, total_duration, a point beyond it and an in-range point
C7_Witness ==
    /\ Returned /\ ValidConfig
    /\ Len(silence_points) >= 3
    /\ \E i \in 1..Len(silence_points) : silence_points[i] > total_duration
    /\ \E i \in 1..Len(silence_points) :
          silence_points[i] \in {0, total_duration}
    /\ \E k \in 1..(Len(segments) - 1) : segments[k][2] \in Range(silence_points)

\* number of multiples of mx strictly below total
C8_Strides(total, mx) == (total - 1) \div mx

\* the max_segment-stride partition with tail merge, in closed form
C8_StridePartition(total, mn, mx) ==
    LET K == C8_Strides(total, mx)
        rem == total - K * mx
    IN  IF rem >= mn
        THEN [k \in 1..(K + 1) |->
                 IF k <= K THEN <<(k - 1) * mx, k * mx>> ELSE <<K * mx, total>>]
        ELSE IF K >= 1
        THEN [k \in 1..K |->
                 IF k < K THEN <<(k - 1) * mx, k * mx>> ELSE <<(K - 1) * mx, total>>]
        ELSE <<<<0, total>>>>

\* C8: for a valid configuration and an empty silence-point list the result
\* is the max_segment-stride partition: forced cuts at every multiple of
\* max_segment strictly below total_duration, then a standalone final segment
\* when the remainder is >= min_segment, otherwise the last stride segment
\* extended to total_duration, otherwise the single segment (0, total).
C8_EmptyListStride ==
    (Returned /\ ValidConfig /\ silence_points = <<>>) =>
        segments = C8_StridePartition(total_duration, min_segment, max_segment)

\* two stride cuts and a remainder too short to stand alone
C8_Witness ==
    /\ Returned /\ ValidConfig /\ silence_points = <<>>
    /\ C8_Strides(total_duration, max_segment) >= 2
    /\ tail_branch = "merge"

\* C9: an invalid configuration (min_segment <= 0, max_segment <=
\* min_segment or total_duration <= 0) is rejected before the sweep begins:
\* no cut is made and no segment list is returned for it.
C9_InvalidConfigRejected ==
    ~ValidConfig => (segments = <<>> /\ ~Returned)

\* C10: on valid input every iteration of either forced-cut loop strictly
\* increases the cursor, and the function returns.
C10_Total ==
    /\ [][(ValidConfig /\ pc \in {"while_sp", "while_end"} /\ pc' = pc)
             => start' > start]_vars
    /\ (ValidConfig ~> Returned)

\* both forced-cut loops ran at least one iteration before the return
C10_Witness ==
    /\ Returned /\ ValidConfig
    /\ \E i \in 1..Len(segments) :
          /\ segments[i][2] = segments[i][1] + max_segment
          /\ segments[i][2] < start
          /\ segments[i][2] \notin Range(points)
    /\ start \notin Range(points)
    /\ points # <<>>

\* ---- properties of the CLI main and of split_segments ---------------------------
\* the runs of subprocess name recorded so far, in order
RunsOf(name) == SelectSeq(effects, LAMBDA x : x.op = name)

Extractions == RunsOf("ffmpeg")

\* the log has been parsed
Parsed == RunsOf("read_log") # <<>>

\* exit status of the process at the end of main
ExitStatus == IF mpc = "exit0" THEN 0 ELSE 1

Ended == mpc \in {"exit0", "exit1", "raised"}

\* C11: when the log holds no silence_start entry, main does not fail on that
\* account and hands exactly the one segment (0, total_duration) to
\* split_segments, whatever total_duration, min_segment and max_segment are:
\* build_segments is not called, the only way to end with failure is a failed
\* extraction, and a successful run made exactly the extraction of
\* (0, total_duration).
C11_NoSilenceWholeFile ==
    (Parsed /\ silence_points = <<>>) =>
        /\ pc = "idle"
        /\ mpc # "exit1"
        /\ mpc # "branch" => segments = <<<<0, total_duration>>>>
        /\ mpc = "raised" =>
              (Last(effects).op = "ffmpeg" /\ Last(effects).rc # 0)
        /\ mpc = "exit0" =>
              /\ Len(Extractions) = 1
              /\ Extractions[1].cmd.ss = 0
              /\ Extractions[1].cmd.t = total_duration

\* an empty log on a file that build_segments would have cut; the run succeeded
C11_Witness ==
    /\ Parsed /\ silence_points = <<>>
    /\ mpc = "exit0"
    /\ ValidConfig
    /\ total_duration > max_segment

\* C12: if the input file or the silence log does not exist, main exits with
\* non-zero status before the duration is probed, the log is parsed, any
\* extraction is run or the output directory is created.
C12_MissingFileExitsFirst ==
    (~input_exists \/ ~log_exists) =>
        /\ effects = <<>>
        /\ mpc \in {"check", "exit1"}
        /\ pc = "idle"
        /\ segments = <<>>
        /\ Ended => ExitStatus # 0

\* the input exists, the log does not, the process has exited
C12_Witness ==
    /\ input_exists
    /\ ~log_exists
    /\ mpc = "exit1"

\* number written by a sequence of decimal digits
RECURSIVE C13_Value(_)
C13_Value(d) ==
    IF d = <<>> THEN 0 ELSE 10 * C13_Value(SubSeq(d, 1, Len(d) - 1)) + d[Len(d)]

\* a precedes b in the order of strings (sequences of digits)
RECURSIVE C13_LexLess(_, _)
C13_LexLess(a, b) ==
    IF a = <<>> THEN b # <<>>
    ELSE IF b = <<>> THEN FALSE
    ELSE IF Head(a) # Head(b) THEN Head(a) < Head(b)
    ELSE C13_LexLess(Tail(a), Tail(b))

\* one extraction per segment so far, in list order, the k-th under index k
C13_OnePerSegmentInOrder ==
    LET X == Extractions
    IN  /\ mpc \in {"extract", "exit0", "raised"} =>
              Len(X) = (IF mpc = "raised" THEN part ELSE part - 1)
        /\ mpc = "exit0" => Len(X) = Len(segments)
        /\ \A k \in 1..Len(X) :
              /\ X[k].cmd.ss = segments[k][1]
              /\ X[k].cmd.out[1] = DEFAULT_PART_PREFIX
              /\ C13_Value(X[k].cmd.out[2]) = k
              /\ X[k].cmd.out[3] = ext
        /\ \A j, k \in 1..Len(X) : j # k => X[j].cmd.out # X[k].cmd.out

\* C13: split_segments makes exactly one extraction per segment, in list
\* order, the k-th segment written under the name of prefix, index k and the
\* source extension; the indices are 1, 2, 3, ... without gap, so the names
\* are pairwise distinct and strictly increasing with the segment.
C13_NamesInOrder ==
    LET X == Extractions
    IN  /\ C13_OnePerSegmentInOrder
        /\ \A j, k \in 1..Len(X) :
              j < k => C13_LexLess(X[j].cmd.out[2], X[k].cmd.out[2])

\* C14: the index field of every output name is exactly PART_INDEX_WIDTH = 2
\* digits wide, for any number of segments.
C14_IndexWidthFixed ==
    LET X == Extractions
    IN  \A k \in 1..Len(X) : Len(X[k].cmd.out[2]) = PART_INDEX_WIDTH

\* sum of the -t values of the first n extractions
RECURSIVE C15_SumT(_)
C15_SumT(n) == IF n = 0 THEN 0 ELSE C15_SumT(n - 1) + Extractions[n].cmd.t

C16_FailedExtractionAborts ==
    /\ [](\A k \in 1..Len(effects) :
            (effects[k].op = "ffmpeg" /\ effects[k].rc # 0) =>
                /\ k = Len(effects)
                /\ mpc = "raised"
                /\ ExitStatus # 0
                /\ RunsOf("print_done") = <<>>)
    /\ [][mpc = "raised" => (mpc' = "raised" /\ effects' = effects)]_vars

\* the second of several extractions failed
C16_Witness ==
    /\ mpc = "raised"
    /\ Len(segments) >= 3
    /\ Len(Extractions) = 2
    /\ Extractions[1].rc = 0
    /\ Extractions[2].rc # 0

\* ---- properties of the yt_fukikae pipeline --------------------------------------
\* the steps of the pipeline in the order main calls them
PipelineOrder == <<"convert", "detect_silence", "split", "transcribe", "translate",
                   "split_text", "tts", "merge", "video", "copy">>

C17_Pos(step) == CHOOSE k \in 1..Len(PipelineOrder) : PipelineOrder[k] = step

\* some subprocess of the run has exited with a non-zero status
C17_Failed == \E i \in 1..Len(yevents) : yevents[i].kind = "exit" /\ yevents[i].rc # 0

\* the steps run in the order of PipelineOrder, none skipped, each subprocess
\* started only after the one before it has exited with 0
C17_InOrder ==
    /\ \A i \in 1..Len(yevents) : yevents[i].step \in Range(PipelineOrder)
    /\ yevents # <<>> => yevents[1].step = "convert"
    /\ \A i \in 1..(Len(yevents) - 1) :
          /\ C17_Pos(yevents[i + 1].step) - C17_Pos(yevents[i].step) \in {0, 1}
          /\ yevents[i + 1].kind \in {"start", "step"} =>
                (yevents[i].kind = "exit" /\ yevents[i].rc = 0)
          /\ yevents[i + 1].kind = "exit" =>
                (yevents[i].kind = "start" /\ yevents[i].step = yevents[i + 1].step)
    /\ (ypc = "exit" /\ ystatus = 0) => Last(yevents).step = "copy"

\* C17: in the yt_fukikae pipeline the steps convert, detect silence, split,
\* transcribe, translate, split text, TTS, merge, video, copy run strictly in
\* that order with at most one subprocess running at a time; as soon as a
\* subprocess exits with a non-zero status no later step is started and the
\* pipeline process exits with a non-zero status.
C17_SequentialAbortOnFailure ==
    /\ [](~yargs.image_only => C17_InOrder)
    /\ [](Cardinality(yrunning) <= 1)
    /\ [](C17_Failed =>
            /\ Last(yevents).kind = "exit" /\ Last(yevents).rc # 0
            /\ \A i \in 1..(Len(yevents) - 1) : ~(yevents[i].kind = "exit" /\ yevents[i].rc # 0)
            /\ yrunning = {}
            /\ ypc = "exit"
            /\ ystatus \in 1..255)
    /\ [][C17_Failed => yevents' = yevents]_vars

\* the translate subprocess, fifth in order, was killed by a signal and the
\* pipeline has exited with the status the parent sees for it
C17_Witness ==
    /\ ~yargs.image_only
    /\ Len(yevents) = 10
    /\ Last(yevents) = [kind |-> "exit", step |-> "translate", rc |-> -9]
    /\ ypc = "exit"
    /\ ystatus = 247

\* ---- properties of the sweep of build_segments ----------------------------------
C18_Input ==
    /\ silence_points = <<50, 120, 950>>
    /\ total_duration = 1000
    /\ min_segment = 300
    /\ max_segment = 900

\* C18: for total_duration=1000, silence_points=[50,120,950], min_segment=300,
\* max_segment=900 the points 50 and 120 are skipped, a forced cut is made at
\* 900 before 950 is considered, 950 is skipped, and the 100 long tail is
\* merged into the forced segment: the result is exactly [(0, 1000)].
C18_Scenario4 ==
    C18_Input =>
        /\ (pc = "for" /\ idx = 3) => (segments = <<>> /\ start = 0)
        /\ (pc = "natural" /\ idx = 3) =>
              (points[idx] = 950 /\ segments = <<<<0, 900>>>> /\ start = 900)
        /\ (pc = "for" /\ idx = 4) => (segments = <<<<0, 900>>>> /\ start = 900)
        /\ pc = "tail" => (segments = <<<<0, 900>>>> /\ total_duration - start = 100)
        /\ Returned => (segments = <<<<0, 1000>>>> /\ tail_branch = "merge")

\* the call on that input has returned
C18_Witness == C18_Input /\ Returned

\* C19: at the natural-cut decision for sp (after the forced cuts toward it)
\* sp is accepted exactly when sp - cursor >= min_segment: then (cursor, sp)
\* is appended and the cursor becomes sp; otherwise the cursor and the
\* segment list are unchanged.
C19_NaturalCutDecision ==
    [][pc = "natural" =>
          IF points[idx] - start >= min_segment
          THEN /\ segments' = Append(segments, <<start, points[idx]>>)
               /\ start' = points[idx]
          ELSE /\ segments' = segments
               /\ start' = start]_vars

\* the first point was accepted and a later, distinct point was skipped
C19_Witness ==
    /\ pc = "for"
    /\ idx = 3
    /\ segments = <<<<0, points[1]>>>>
    /\ start = points[1]
    /\ points[2] > points[1]

\* C20: for every valid input, no cut made during the sweep (natural or
\* forced, before the tail policy) from cursor c to boundary e has an
\* in-range silence point p with c + min_segment <= p < e; and a forced cut
\* at c + max_segment is made only when no silence point lies in
\* [c + min_segment, c + max_segment].
C20_EarliestUsablePoint ==
    /\ []((ValidConfig /\ pc \in {"for", "while_sp", "natural", "while_end", "tail"}) =>
            \A i \in 1..Len(segments) : \A p \in Range(points) :
                ~(segments[i][1] + min_segment <= p /\ p < segments[i][2]))
    /\ [][(ValidConfig /\ pc \in {"while_sp", "while_end"} /\ pc' = pc) =>
            \A p \in Range(points) :
                ~(start + min_segment <= p /\ p <= start + max_segment)]_vars

\* the sweep made a forced cut and a natural cut and skipped a point
C20_Witness ==
    /\ pc = "tail"
    /\ ValidConfig
    /\ \E i \in 1..Len(segments) : segments[i][2] \notin Range(points)
    /\ \E i \in 1..Len(segments) : segments[i][2] \in Range(points)
    /\ \E p \in Range(points) : \A i \in 1..Len(segments) : segments[i][2] # p

\* ---- properties of the tail policy of build_segments -----------------------------
\* C21: when the tail left after the sweep is shorter than min_segment and at
\* least one segment was accepted, the tail policy changes only the end of the
\* last accepted segment, to total_duration: the number of segments, the start
\* of the last segment and every earlier segment are unchanged, and no
\* separate short final segment is emitted.
C21_MergeChangesOnlyLastEnd ==
    [][(pc = "tail" /\ total_duration - start < min_segment /\ segments # <<>>) =>
          /\ Len(segments') = Len(segments)
          /\ \A i \in 1..(Len(segments) - 1) : segments'[i] = segments[i]
          /\ Last(segments')[1] = Last(segments)[1]
          /\ Last(segments')[2] = total_duration
          /\ start' = start]_vars

\* a short tail was merged behind two segments, the last of which had ended
\* before total_duration and started after 0
C21_Witness ==
    /\ Returned
    /\ tail_branch = "merge"
    /\ Len(segments) >= 2
    /\ 0 < total_duration - start
    /\ total_duration - start < min_segment
    /\ Last(segments) = <<segments[Len(segments) - 1][2], total_duration>>

\* C22: for a valid configuration with total_duration < min_segment,
\* build_segments returns exactly the single segment (0, total_duration) for
\* every list of silence points, without raising, although that segment is
\* shorter than min_segment.
C22_ShortStreamSingleSegment ==
    (ValidConfig /\ total_duration < min_segment) =>
        /\ pc \in {"call", "for", "while_sp", "natural", "while_end", "tail"} => segments = <<>>
        /\ Returned =>
              /\ segments = <<<<0, total_duration>>>>
              /\ tail_branch = "fallback"
              /\ Dur(segments[1]) < min_segment
              /\ BuildSegments(silence_points, total_duration, min_segment, max_segment)
                    = <<<<0, total_duration>>>>

\* a short stream with silence points inside it was returned whole
C22_Witness ==
    /\ Returned
    /\ ValidConfig
    /\ total_duration < min_segment
    /\ Len(points) >= 2
    /\ segments = <<<<0, total_duration>>>>

C24_NeverEmpty ==
    /\ [](Returned => segments # <<>>)
    /\ [][(mpc = "build" /\ mpc' = "split") => segments' = segments]_vars

\* main got back a list to which step 4 had to add the only segment
C24_Witness ==
    /\ mpc = "split"
    /\ pc = "done"
    /\ tail_branch = "fallback"
    /\ silence_points # <<>>
    /\ segments = <<<<0, total_duration>>>>

\* the parsed silence points strictly inside (0, total_duration)
C25_InRangeSet == {p \in Range(silence_points) : 0 < p /\ p < total_duration}

\* every forced cut moves the cursor or is refused: build_segments returns
C25_Returns == max_segment > 0 \/ min_segment > max_segment

IsPrefix(s, t) == Len(s) <= Len(t) /\ \A k \in 1..Len(s) : s[k] = t[k]

\* C26: in translate_to_ja main the source files are translated one at a time
\* in sorted name order; at the first file whose translation fails no later
\* file is translated, the process exits with status 1 and the combined file
\* is not written; the combined file is written only after every source file
\* was translated without error.
C26_TranslateAbortsOnFirstError ==
    /\ [](script = "translate_to_ja" =>
            /\ \A j, k \in 1..Len(files) : j < k => NameLess(files[j], files[k])
            /\ IsPrefix(done_files \o failed_files, files)
            /\ Len(failed_files) <= 1
            /\ (spc = "exited" /\ failed_files # <<>>) => (sstatus = 1 /\ ~combined)
            /\ failed_files # <<>> => ~combined
            /\ combined => (done_files = files /\ files # <<>> /\ sstatus = 0))
    /\ [][(script = "translate_to_ja" /\ failed_files # <<>>) =>
            (done_files' = done_files /\ failed_files' = failed_files
             /\ combined' = combined)]_vars

\* the second of three files failed after the first was translated, and the
\* process has exited
C26_Witness ==
    /\ script = "translate_to_ja"
    /\ spc = "exited"
    /\ sstatus = 1
    /\ Len(files) = 3
    /\ done_files = <<files[1]>>
    /\ failed_files = <<files[2]>>
    /\ ~combined

\* C29: every stage script the pipeline launches exits with a non-zero status
\* whenever its own work failed for at least one item (a chunk not
\* transcribed, a text not synthesized, a failed ffmpeg merge, a missing
\* input), so the orchestrator never starts the next step after a stage that
\* failed.
C29_FailedStageExitsNonZero ==
    /\ (spc = "exited" /\ (failed_files # <<>> \/ ~dir_exists)) => sstatus # 0
    /\ spc = "next_started" => (failed_files = <<>> /\ dir_exists)

\* ---- properties of split_text -----------------------------------------------------
\* the chunks joined in order
RECURSIVE Concat(_)
Concat(cs) == IF cs = <<>> THEN <<>> ELSE Head(cs) \o Concat(Tail(cs))

\* C27: for every text and every max_chars >= 1, split_text terminates and
\* every chunk it returns is non-empty and at most max_chars long, also when a
\* single sentence unit is longer than max_chars (it is force-split into
\* pieces of at most max_chars).
C27_ChunksBoundedAndTerminates ==
    /\ [](\A k \in 1..Len(chunks) : chunks[k] # <<>> /\ Len(chunks[k]) <= max_chars)
    /\ [](tpc \in {"for", "while"} => Len(current) <= max_chars)
    /\ (tpc = "call") ~> (tpc = "done")

\* a text of one unit longer than max_chars was returned in several pieces
C27_Witness ==
    /\ tpc = "done"
    /\ Len(units) = 1
    /\ Len(units[1]) > max_chars
    /\ Len(chunks) >= 2
    /\ Len(chunks[1]) = max_chars

\* C28: split_text loses and reorders nothing: for every text and
\* max_chars >= 1 the returned chunks joined in order are the
\* newline-normalized text, except that a final remainder of whitespace only
\* is dropped (the join is then the normalized text without that suffix).
C28_NothingLostOrReordered ==
    /\ tpc \in {"for", "while", "done"} =>
          Concat(units) = NormalizeNewlines(text)
    /\ tpc = "for" =>
          Concat(chunks) \o current \o Concat(SubSeq(units, upos, Len(units)))
              = NormalizeNewlines(text)
    /\ tpc = "done" =>
          LET joined == Concat(chunks)
              normalized == NormalizeNewlines(text)
              rest == SubSeq(normalized, Len(joined) + 1, Len(normalized))
          IN  /\ IsPrefix(joined, normalized)
              /\ ~StripNonEmpty(rest)
              /\ rest = (IF StripNonEmpty(current) THEN <<>> ELSE current)
              /\ Len(normalized) <= Len(text)
              /\ CR \notin Range(normalized)
              /\ CR \notin Range(text) => normalized = text

\* a text with a carriage return was split into several chunks and its
\* whitespace-only remainder dropped
C28_Witness ==
    /\ tpc = "done"
    /\ CR \in Range(text)
    /\ Len(chunks) >= 2
    /\ current # <<>>
    /\ ~StripNonEmpty(current)
    /\ Concat(chunks) \o current = NormalizeNewlines(text)

\* ---- properties of the end of the yt_fukikae pipeline ------------------------------
\* C30: when create_video_from_audio cannot build the video (the merged audio
\* is missing or the overlay image could not be created) it returns None, and
\* main then skips both copy steps and finishes normally: no exception and no
\* non-zero exit comes from handling that result.
C30_NoneSkipsCopiesAndExitsZero ==
    (yvideo = "None" /\ ypc = "exit") =>
        /\ ystatus = 0
        /\ \A k \in 1..Len(yevents) : yevents[k].step # "copy"

====
